---- MODULE Spec2Model ----
(***************************************************************************)
(* A model of the two pieces of executable logic in the documentation:     *)
(*                                                                         *)
(*   - skeleton_of_thought (tutorial notebook): one synchronous call to    *)
(*     break_into_subpoints, one expand_subpoint coroutine per subpoint,   *)
(*     asyncio.gather over them, and a newline join of the results;        *)
(*   - is_importable / check_module / check_attribute (cookbook).          *)
(*                                                                         *)
(* Spec is the orchestrator running on the asyncio event loop; SpecImp     *)
(* applies is_importable to bounded sets of parsed code.                   *)
(***************************************************************************)
EXTENDS Integers, Sequences, FiniteSets

VARIABLES pc, skeleton, outlineCalls, i, tasks, children, nfinished, outer,
          completed, ret, exc,
          code, ipc, walk, iret

sotVars == <<pc, skeleton, outlineCalls, i, tasks, children, nfinished, outer,
             completed, ret, exc>>
impVars == <<code, ipc, walk, iret>>
vars == <<pc, skeleton, outlineCalls, i, tasks, children, nfinished, outer,
          completed, ret, exc, code, ipc, walk, iret>>

(***************************************************************************)
(* Bounds of the model.                                                    *)
(***************************************************************************)
MaxOutline == 3

(* The prompt's "Generally, the skeleton should have 3~10 points". *)
SkeletonMaxPoints == 10

(***************************************************************************)
(* Values.  A text is a sequence of characters.                            *)
(***************************************************************************)
query == <<"q">>

Subpoints == {<<"s">>, <<"t">>}

(* Texts an expansion may hold: empty, one character, and one with a newline
   of its own. *)
Contents == {<<>>, <<"a">>, <<"b", "\n", "c">>}

Outlines == UNION {[1..n -> Subpoints] : n \in 0..MaxOutline}

NoValue == [kind |-> "none", content |-> <<>>, error |-> "none", origin |-> 0]

(* What an openai call returns: a response whose .content is the text. *)
Response(text) == [kind |-> "response", content |-> text, error |-> "none", origin |-> 0]

(* A raised exception; origin is the call that raised it, 0 for the outline
   call and k for the expansion of point k (the identity of the exception). *)
Raised(kind, origin) == [kind |-> "error", content |-> <<>>, error |-> kind, origin |-> origin]

(* break_into_subpoints fails in the provider call or in the validation of
   the response model; expand_subpoint has no response model. *)
OutlineErrors == {"APIError", "ValidationError"}
ExpansionErrors == {"APIError"}

NoSkeleton == [set |-> FALSE, subpoints |-> <<>>]
NoReturn == [set |-> FALSE, text |-> <<>>]

(* A coroutine object made by calling expand_subpoint(query, skeleton, point_index). *)
expand_subpoint(q, sk, point_index) == [query |-> q, skeleton |-> sk, point_index |-> point_index]

(* asyncio future states of a child task. *)
PendingFut == [state |-> "pending", value |-> NoValue]

(* A join that also ends the last part with the separator. *)
RECURSIVE JoinTrailing(_, _)
JoinTrailing(sep, parts) ==
  IF parts = <<>> THEN <<>>
  ELSE parts[1] \o sep \o JoinTrailing(sep, Tail(parts))

(* "\n".join(parts) *)
RECURSIVE Join(_, _)
Join(sep, parts) ==
  IF parts = <<>> THEN <<>>
  ELSE IF Len(parts) = 1 THEN parts[1]
  ELSE parts[1] \o sep \o Join(sep, Tail(parts))

NL == <<"\n">>

(***************************************************************************)
(* skeleton_of_thought                                                     *)
(***************************************************************************)
SotInit ==
  /\ pc = "call_outline"
  /\ skeleton = NoSkeleton
  /\ outlineCalls = 0
  /\ i = 0
  /\ tasks = <<>>
  /\ children = <<>>
  /\ nfinished = 0
  /\ outer = [state |-> "none", value |-> NoValue, results |-> <<>>]
  /\ completed = <<>>
  /\ ret = NoReturn
  /\ exc = NoValue

(* skeleton = break_into_subpoints(query), the call returns a Skeleton. *)
BreakIntoSubpointsReturn(sp) ==
  /\ pc = "call_outline"
  /\ outlineCalls' = outlineCalls + 1
  /\ skeleton' = [set |-> TRUE, subpoints |-> sp]
  /\ i' = 0
  /\ pc' = "build_tasks"
  /\ UNCHANGED <<tasks, children, nfinished, outer, completed, ret, exc, code, ipc, walk, iret>>

(* The outline call's exception is caught and the orchestration goes on
   without a skeleton. *)
BreakIntoSubpointsRaiseSwallowed(kind) ==
  /\ pc = "call_outline"
  /\ outlineCalls' = outlineCalls + 1
  /\ i' = 0
  /\ pc' = "build_tasks"
  /\ UNCHANGED <<skeleton, exc, tasks, children, nfinished, outer, completed, ret, code, ipc, walk, iret>>

(* skeleton = break_into_subpoints(query), the call raises: the exception
   leaves skeleton_of_thought unhandled. *)
BreakIntoSubpointsRaise(kind) ==
  /\ pc = "call_outline"
  /\ outlineCalls' = outlineCalls + 1
  /\ exc' = Raised(kind, 0)
  /\ pc' = "raised"
  /\ UNCHANGED <<skeleton, i, tasks, children, nfinished, outer, completed, ret, code, ipc, walk, iret>>

(* The iteration passes enumerate's 0-based i as the point index. *)
CreateTaskZeroBased ==
  /\ pc = "build_tasks"
  /\ i < Len(skeleton.subpoints)
  /\ tasks' = Append(tasks, expand_subpoint(query, skeleton.subpoints, i))
  /\ i' = i + 1
  /\ UNCHANGED <<pc, skeleton, outlineCalls, children, nfinished, outer, completed, ret, exc, code, ipc, walk, iret>>

(* The iteration calls break_into_subpoints again for the skeleton argument. *)
CreateTaskOutlineAgain ==
  /\ pc = "build_tasks"
  /\ i < Len(skeleton.subpoints)
  /\ outlineCalls' = outlineCalls + 1
  /\ tasks' = Append(tasks, expand_subpoint(query, skeleton.subpoints, i + 1))
  /\ i' = i + 1
  /\ UNCHANGED <<pc, skeleton, children, nfinished, outer, completed, ret, exc, code, ipc, walk, iret>>

(* One iteration of the list comprehension over enumerate(skeleton.subpoints). *)
CreateTask ==
  /\ pc = "build_tasks"
  /\ i < Len(skeleton.subpoints)
  /\ tasks' = Append(tasks, expand_subpoint(query, skeleton.subpoints, i + 1))
  /\ i' = i + 1
  /\ UNCHANGED <<pc, skeleton, outlineCalls, children, nfinished, outer, completed, ret, exc, code, ipc, walk, iret>>

(* A gather that refuses an empty list of tasks. *)
GatherOuterRejectEmpty(ts) ==
  IF ts = <<>>
    THEN [state |-> "exception", value |-> Raised("ValueError", 0), results |-> <<>>]
    ELSE [state |-> "pending", value |-> NoValue, results |-> <<>>]

(* asyncio.gather over the tasks: every coroutine is wrapped in a task and scheduled;
   with no argument the returned future is already resolved with []. *)
GatherOuter(ts) ==
  IF ts = <<>>
    THEN [state |-> "result", value |-> NoValue, results |-> <<>>]
    ELSE [state |-> "pending", value |-> NoValue, results |-> <<>>]

Gather ==
  /\ pc = "build_tasks"
  /\ i = Len(skeleton.subpoints)
  /\ children' = [k \in 1..Len(tasks) |-> PendingFut]
  /\ nfinished' = 0
  /\ outer' = GatherOuter(tasks)
  /\ pc' = "await"
  /\ UNCHANGED <<skeleton, outlineCalls, i, tasks, completed, ret, exc, code, ipc, walk, iret>>

(* A callback that collects the results in the order of completion. *)
DoneCallbackArrivalOrder(o, ch, n, k) ==
  IF o.state # "pending" THEN o
  ELSE IF ch[k].state = "failed"
    THEN [state |-> "exception", value |-> ch[k].value, results |-> <<>>]
  ELSE IF n = Len(ch)
    THEN [state |-> "result", value |-> NoValue,
          results |-> [j \in 1..Len(ch) |-> ch[Append(completed, k)[j]].value]]
  ELSE o

(* A callback that drops failed children and resolves with the rest. *)
DoneCallbackSkipFailed(o, ch, n, k) ==
  IF o.state # "pending" THEN o
  ELSE IF n = Len(ch)
    THEN [state |-> "result", value |-> NoValue,
          results |-> [j \in 1..Len(SelectSeq(ch, LAMBDA f : f.state = "done")) |->
                         SelectSeq(ch, LAMBDA f : f.state = "done")[j].value]]
  ELSE o

(* A callback that resolves as soon as one child has returned. *)
DoneCallbackFirstCompleted(o, ch, n, k) ==
  IF o.state # "pending" THEN o
  ELSE IF ch[k].state = "failed"
    THEN [state |-> "exception", value |-> ch[k].value, results |-> <<>>]
  ELSE [state |-> "result", value |-> NoValue,
        results |-> [j \in 1..Len(ch) |-> ch[j].value]]

(* A callback in which a later failure replaces the exception already set. *)
DoneCallbackLastError(o, ch, n, k) ==
  IF o.state = "result" THEN o
  ELSE IF ch[k].state = "failed"
    THEN [state |-> "exception", value |-> ch[k].value, results |-> <<>>]
  ELSE IF o.state = "pending" /\ n = Len(ch)
    THEN [state |-> "result", value |-> NoValue,
          results |-> [j \in 1..Len(ch) |-> ch[j].value]]
  ELSE o

(* gather's _done_callback for child k, run on the children as they are
   after the child finished (return_exceptions is False). *)
DoneCallback(o, ch, n, k) ==
  IF o.state # "pending" THEN o
  ELSE IF ch[k].state = "failed"
    THEN [state |-> "exception", value |-> ch[k].value, results |-> <<>>]
  ELSE IF n = Len(ch)
    THEN [state |-> "result", value |-> NoValue,
          results |-> [j \in 1..Len(ch) |-> ch[j].value]]
  ELSE o

(* The event loop runs the first step of child k: the request is sent. *)
TaskStart(k) ==
  /\ k \in 1..Len(children)
  /\ children[k].state = "pending"
  /\ children' = [children EXCEPT ![k].state = "running"]
  /\ UNCHANGED <<pc, skeleton, outlineCalls, i, tasks, nfinished, outer, completed, ret, exc,
               code, ipc, walk, iret>>

Finish(k, fut) ==
  /\ children' = [children EXCEPT ![k] = fut]
  /\ nfinished' = nfinished + 1
  /\ completed' = Append(completed, k)
  /\ outer' = DoneCallback(outer, [children EXCEPT ![k] = fut], nfinished + 1, k)
  /\ UNCHANGED <<pc, skeleton, outlineCalls, i, tasks, ret, exc, code, ipc, walk, iret>>

(* expand_subpoint for point k returns its response. *)
TaskReturn(k, text) ==
  /\ k \in 1..Len(children)
  /\ children[k].state = "running"
  /\ Finish(k, [state |-> "done", value |-> Response(text)])

(* expand_subpoint for point k raises. *)
TaskRaise(k, kind) ==
  /\ k \in 1..Len(children)
  /\ children[k].state = "running"
  /\ Finish(k, [state |-> "failed", value |-> Raised(kind, tasks[k].point_index)])

(* [result.content for result in results] *)
ResultContents(results) == [j \in 1..Len(results) |-> results[j].content]

(* results = await asyncio.gather(...) resumes once the gathering future is
   resolved, then return "\n".join([...]), or the exception propagates. *)
Resume ==
  /\ pc = "await"
  /\ outer.state \in {"result", "exception"}
  /\ IF outer.state = "result"
       THEN /\ ret' = [set |-> TRUE, text |-> Join(NL, ResultContents(outer.results))]
            /\ pc' = "returned"
            /\ exc' = exc
       ELSE /\ exc' = outer.value
            /\ pc' = "raised"
            /\ ret' = ret
  /\ UNCHANGED <<skeleton, outlineCalls, i, tasks, children, nfinished, outer, completed,
               code, ipc, walk, iret>>

(***************************************************************************)
(* is_importable                                                           *)
(*                                                                         *)
(* The code string is modelled by what ast.parse makes of it: a syntax     *)
(* error, or the import statements and other nodes that ast.walk visits.   *)
(* An Import node lists module names; an ImportFrom node has a module      *)
(* ("None" for a relative import without one) and lists imported names.    *)
(***************************************************************************)
MaxNodes == 2
MaxNames == 2

(* The interpreter's environment: what importlib.util.find_spec finds and
   what hasattr finds on the executed module. *)
InstalledModules == {"math"}
ModuleAttributes(m) == IF m = "math" THEN {"pi"} ELSE {}

ModuleNames == {"math", "nomod"}
AttributeNames == {"pi", "noattr"}

NameLists(S) == UNION {[1..n -> S] : n \in 1..MaxNames}

Nodes ==
  {[type |-> "Import", module |-> "None", names |-> ns] : ns \in NameLists(ModuleNames)}
  \cup {[type |-> "ImportFrom", module |-> m, names |-> ns] :
          m \in ModuleNames \cup {"None"}, ns \in NameLists(AttributeNames)}
  \cup {[type |-> "Other", module |-> "None", names |-> <<>>]}

Codes ==
  {[parses |-> FALSE, nodes |-> <<>>]}
  \cup {[parses |-> TRUE, nodes |-> ns] : ns \in UNION {[1..n -> Nodes] : n \in 0..MaxNodes}}

(* find_spec(module_name) is not None; ImportError, AttributeError (a None
   name) and ValueError give False. *)
check_module(module_name) == module_name \in InstalledModules

(* hasattr(module, attribute) on the module found and executed. *)
check_attribute(module_name, attribute) ==
  /\ module_name \in InstalledModules
  /\ attribute \in ModuleAttributes(module_name)

(* node.module if isinstance(node, ast.ImportFrom) else node.names[0].name *)
module_name_of(node) ==
  IF node.type = "ImportFrom" THEN node.module ELSE node.names[1]

(* The body of the loop for one node: TRUE when the loop goes on to the next
   node, FALSE when is_importable returns False at this node. *)
NodePasses(node) ==
  IF node.type \in {"Import", "ImportFrom"}
    THEN /\ check_module(module_name_of(node))
         /\ node.type = "ImportFrom" =>
              \A a \in 1..Len(node.names) :
                 check_attribute(module_name_of(node), node.names[a])
    ELSE TRUE

ImpInit ==
  /\ code \in Codes
  /\ ipc = "parse"
  /\ walk = 0
  /\ iret = FALSE

ImpIdle ==
  /\ code = [parses |-> FALSE, nodes |-> <<>>]
  /\ ipc = "idle"
  /\ walk = 0
  /\ iret = FALSE

(* tree = ast.parse(code_string); a SyntaxError returns False. *)
ImpParse ==
  /\ ipc = "parse"
  /\ IF code.parses
       THEN ipc' = "walk" /\ walk' = 1 /\ iret' = iret
       ELSE ipc' = "done" /\ walk' = walk /\ iret' = FALSE
  /\ UNCHANGED <<code, pc, skeleton, outlineCalls, i, tasks, children, nfinished, outer,
                 completed, ret, exc>>

(* One iteration of for node in ast.walk(tree). *)
ImpVisit ==
  /\ ipc = "walk"
  /\ walk <= Len(code.nodes)
  /\ IF NodePasses(code.nodes[walk])
       THEN ipc' = ipc /\ walk' = walk + 1 /\ iret' = iret
       ELSE ipc' = "done" /\ walk' = walk /\ iret' = FALSE
  /\ UNCHANGED <<code, pc, skeleton, outlineCalls, i, tasks, children, nfinished, outer,
                 completed, ret, exc>>

(* The loop is exhausted: return True. *)
ImpReturnTrue ==
  /\ ipc = "walk"
  /\ walk > Len(code.nodes)
  /\ ipc' = "done"
  /\ iret' = TRUE
  /\ UNCHANGED <<walk, code, pc, skeleton, outlineCalls, i, tasks, children, nfinished,
                 outer, completed, ret, exc>>

(***************************************************************************)
(* Specifications                                                          *)
(***************************************************************************)
Init == SotInit /\ ImpIdle

Next ==
  \/ \E sp \in Outlines : BreakIntoSubpointsReturn(sp)
  \/ \E kind \in OutlineErrors : BreakIntoSubpointsRaise(kind)
  \/ CreateTask
  \/ Gather
  \/ \E k \in 1..MaxOutline : TaskStart(k)
  \/ \E k \in 1..MaxOutline, text \in Contents : TaskReturn(k, text)
  \/ \E k \in 1..MaxOutline, kind \in ExpansionErrors : TaskRaise(k, kind)
  \/ Resume

Spec == Init /\ [][Next]_vars

InitImp == SotInit /\ ImpInit

NextImp == ImpParse \/ ImpVisit \/ ImpReturnTrue

SpecImp == InitImp /\ [][NextImp]_vars

(***************************************************************************)
(* Properties of skeleton_of_thought                                       *)
(***************************************************************************)
N == Len(skeleton.subpoints)

InFlight(k) == children[k].state \in {"pending", "running"}

Failed(k) == children[k].state = "failed"

(* The orchestrator got past the outline call and handed its tasks to gather. *)
FannedOut == pc \in {"await", "returned"} \/ (pc = "raised" /\ skeleton.set)

Finished == pc \in {"returned", "raised"}

(* The text the expansion of point k completed with. *)
ExpansionOf(k) == children[k].value.content

(* Where the text of point k starts in a newline-joined string: after the
   k-1 earlier texts and the k-1 separators that follow them. *)
RECURSIVE Offset(_)
Offset(k) == IF k <= 1 THEN 0 ELSE Offset(k - 1) + Len(ExpansionOf(k - 1)) + 1

(* The first expansion to fail, in completion order (0 when none failed). *)
RECURSIVE FirstFailedFrom(_)
FirstFailedFrom(j) ==
  IF j > Len(completed) THEN 0
  ELSE IF Failed(completed[j]) THEN completed[j]
  ELSE FirstFailedFrom(j + 1)

FirstFailed == FirstFailedFrom(1)

(* C1: the assembled result lists the expansions in outline order, whatever
   the order in which the expansions completed: the k-th result gather hands
   back is the response of the task created for point k, and the k-th
   paragraph of the returned string is that response's text. *)
C1_OutlineOrder ==
  pc = "returned" =>
    /\ Len(outer.results) = N
    /\ \A k \in 1..N :
         /\ tasks[k].point_index = k
         /\ outer.results[k] = children[k].value
         /\ SubSeq(ret.text, Offset(k) + 1, Offset(k) + Len(ExpansionOf(k))) = ExpansionOf(k)

(* C1 witness: a result was returned although point 2 completed before
   point 1 and the two texts differ. *)
C1_Witness ==
  /\ pc = "returned"
  /\ N >= 2
  /\ completed[1] > completed[2]
  /\ ExpansionOf(1) # ExpansionOf(2)
  /\ ExpansionOf(1) # <<>>

(* C2: for an outline of N entries exactly N expand_subpoint invocations are
   issued and their point indices are 1..N, each used once; while the tasks
   are being built the indices issued so far are 1..i. *)
C2_OnePerIndex ==
  /\ Len(tasks) = i
  /\ \A k \in 1..Len(tasks) : tasks[k].point_index = k
  /\ FannedOut =>
       /\ Len(tasks) = N
       /\ Len(children) = N
       /\ {tasks[k].point_index : k \in 1..Len(tasks)} = 1..N

(* C2 witness: three invocations were issued for an outline of three. *)
C2_Witness ==
  /\ FannedOut
  /\ N = 3
  /\ Len(tasks) = 3
  /\ children[3].state = "running"

(* C3: once the outline call has failed, no expand_subpoint invocation is
   ever issued and skeleton_of_thought ends in failure with no result. *)
C3_OutlineFailureStops ==
  (outlineCalls > 0 /\ ~skeleton.set) =>
    /\ pc = "raised"
    /\ exc.kind = "error"
    /\ exc.origin = 0
    /\ tasks = <<>>
    /\ children = <<>>
    /\ ~ret.set

(* C3 witness: the outline call failed in the validation of the response. *)
C3_Witness ==
  /\ outlineCalls = 1
  /\ ~skeleton.set
  /\ pc = "raised"
  /\ exc.error = "ValidationError"

(* C4: when an expansion has failed, skeleton_of_thought never returns an
   assembled string, and when it finishes it finishes in failure. *)
C4_FailsAsAWhole ==
  (\E k \in 1..Len(children) : Failed(k)) =>
    /\ pc # "returned"
    /\ ~ret.set
    /\ Finished => (pc = "raised" /\ exc.kind = "error")

(* C4 witness: exactly one of three expansions failed, the two others
   succeeded, and the orchestrator has failed. *)
C4_Witness ==
  /\ pc = "raised"
  /\ N = 3
  /\ Cardinality({k \in 1..Len(children) : Failed(k)}) = 1
  /\ Cardinality({k \in 1..Len(children) : children[k].state = "done"}) = 2

(* C5 as claimed: whenever the orchestrator has finished, with a result or
   with a failure, no expansion it issued is still in flight. *)
C5_Claimed_NoneInFlightWhenFinished ==
  Finished => \A k \in 1..Len(children) : ~InFlight(k)

(* C5 as amended: when skeleton_of_thought returns a result, every expansion
   has completed; when it fails after the fan-out, an expansion has failed
   (the others may still be in flight). *)
C5_AllDoneBeforeResult ==
  /\ pc = "returned" => \A k \in 1..Len(children) : children[k].state = "done"
  /\ (pc = "raised" /\ skeleton.set) => \E k \in 1..Len(children) : Failed(k)

(* C5 witness: a result was returned for an outline of at least two points. *)
C5_Witness ==
  /\ pc = "returned"
  /\ N >= 2
  /\ nfinished = N

(* C6: the returned string is the N texts joined by one newline each, in
   index order: its length is the texts' lengths plus N-1, every position is
   either inside the text of one point, holding that text's character, or is
   the separator that follows a text other than the last, and nothing comes
   before the first text or after the last. *)
C6_NewlineJoined ==
  pc = "returned" =>
    /\ N = 0 => ret.text = <<>>
    /\ N >= 1 =>
         /\ Len(ret.text) = Offset(N) + Len(ExpansionOf(N))
         /\ \A k \in 1..N : \A c \in 1..Len(ExpansionOf(k)) :
              ret.text[Offset(k) + c] = ExpansionOf(k)[c]
         /\ \A k \in 1..(N - 1) : ret.text[Offset(k + 1)] = "\n"

(* C6 witness: two different texts, returned as the first, one newline and
   the second. *)
C6_Witness ==
  /\ pc = "returned"
  /\ N = 2
  /\ ExpansionOf(1) = <<"a">>
  /\ ExpansionOf(2) = <<"b", "\n", "c">>
  /\ ret.text = <<"a", "\n", "b", "\n", "c">>

(* C8 as claimed: every failure reaches the caller as an OrchestrationError. *)
C8_Claimed_OrchestrationError ==
  pc = "raised" => exc.error = "OrchestrationError"

(* C8 as amended: every failure reaches the caller as one raw downstream
   exception: the outline call's own exception when the outline fails, and
   otherwise the exception of the first expansion to fail, alone and
   unwrapped. *)
C8_RawFirstError ==
  pc = "raised" =>
    /\ exc.kind = "error"
    /\ ~skeleton.set => (exc.origin = 0 /\ exc.error \in OutlineErrors)
    /\ skeleton.set =>
         /\ FirstFailed # 0
         /\ exc = children[FirstFailed].value
         /\ exc.origin = FirstFailed
         /\ exc.error \in ExpansionErrors

(* C8 witness: two expansions failed before the orchestrator resumed, point 2
   first, and the caller got the exception of point 2 only. *)
C8_Witness ==
  /\ pc = "raised"
  /\ N >= 2
  /\ Failed(1)
  /\ Failed(2)
  /\ FirstFailed = 2
  /\ exc.origin = 2

(* C9: break_into_subpoints is invoked exactly once per orchestration, and no
   expand_subpoint invocation is created or started before that call has
   returned a skeleton; the expansions start only after all were created. *)
C9_TwoPhase ==
  /\ pc = "call_outline" => outlineCalls = 0
  /\ pc # "call_outline" => outlineCalls = 1
  /\ (tasks # <<>> \/ children # <<>>) => (skeleton.set /\ outlineCalls = 1)
  /\ children # <<>> => (Len(tasks) = N /\ pc \notin {"call_outline", "build_tasks"})

(* C9 witness: an expansion is running after the single outline call. *)
C9_Witness ==
  /\ outlineCalls = 1
  /\ skeleton.set
  /\ \E k \in 1..Len(children) : children[k].state = "running"

(* C10 as claimed: the orchestrator never reaches the expand phase with an
   outline of fewer than 1 or more than 10 entries. *)
C10_Claimed_LengthBounded ==
  FannedOut => (N >= 1 /\ N <= SkeletonMaxPoints)

(* C10 as amended: skeleton_of_thought does not check the outline's length;
   it fans out over exactly the list the outline call returned, whatever its
   length, and for an empty outline it issues no expansion and returns the
   empty string. *)
C10_NoLengthCheck ==
  /\ FannedOut => (Len(children) = N /\ nfinished <= N)
  /\ (skeleton.set /\ N = 0 /\ pc # "build_tasks") =>
       /\ children = <<>>
       /\ exc = NoValue
       /\ pc \in {"await", "returned"}
       /\ pc = "returned" => ret = [set |-> TRUE, text |-> <<>>]

(* C10 witness: the empty outline was fanned out over and the empty string
   returned. *)
C10_Witness ==
  /\ skeleton.set
  /\ N = 0
  /\ pc = "returned"
  /\ ret.text = <<>>
  /\ children = <<>>

(***************************************************************************)
(* Properties of is_importable                                             *)
(***************************************************************************)
(* Every module an import statement names exists, and every name a
   from-import lists is an attribute of its module. *)
StatementValid(node) ==
  IF node.type = "Import"
    THEN \A a \in 1..Len(node.names) : node.names[a] \in InstalledModules
  ELSE IF node.type = "ImportFrom"
    THEN /\ node.module \in InstalledModules
         /\ \A a \in 1..Len(node.names) : node.names[a] \in ModuleAttributes(node.module)
  ELSE TRUE

AllImportsValid(c) ==
  /\ c.parses
  /\ \A n \in 1..Len(c.nodes) : StatementValid(c.nodes[n])

(* C7: is_importable returns True only if the code parses and every module
   named by every import statement is found and every imported name is an
   attribute of its module; it returns False if any of them does not exist. *)
C7_Claimed_AllModulesValid ==
  ipc = "done" => (iret = TRUE => AllImportsValid(code))

====
